---- MODULE Spec2Model ----
(***************************************************************************)
(* Sandboxed code execution of docAgent-MCPServer: the host-side           *)
(* orchestrator exec_py_runtime (app/tools/py_runtime.py) and the          *)
(* in-container artifact watcher (python_runtime_container_setup/          *)
(* watcher.py), with the stdout marker protocol between them.              *)
(*                                                                         *)
(* Text is modelled as a sequence of tokens.  A token is a one-character   *)
(* string, or one of the multi-character tokens "SP" (a blank), "NL" (a    *)
(* line break), "http" (the four characters h,t,t,p), "MARK" (the text     *)
(* "=== Uploaded Files ===") and "[Watcher]" (the prefix of every log line *)
(* of the watcher, standing for the whole log line).                       *)
(***************************************************************************)
EXTENDS Integers, Sequences, FiniteSets, TLC

VARIABLES
    pc,             \* position of exec_py_runtime
    tmpfile_exists, \* the staged file exists on the host
    tmpfile_path,   \* the local tmpfile_path is bound ("bound") or not ("unbound")
    docker_test,    \* result of `docker --version`
    image_test,     \* result of `docker inspect <image>`
    runs,           \* number of `docker run` started by the call
    client,         \* the `docker run` client process
    outcome,        \* what the call gave the caller: "return" or the raised class
    cause,          \* why the call failed
    uploaded_urls,  \* the local list uploaded_urls
    ret,            \* the returned string
    collecting_end, \* the parser's flag collecting when its loop ended
    message,        \* the text of the error raised to the caller
    container,      \* the container of the run
    exit_code,      \* exit code of the container
    user,           \* the user code process inside the container
    files,          \* names created by user code in /app
    sentinel,       \* /app/.done exists
    event_queue,    \* the observer's queue of creation events
    watcher,        \* position of the watcher's main thread
    observer,       \* the observer thread
    uploaded_files, \* the watcher's set uploaded_files
    recorded,       \* the URLs in the order uploaded_files.add received them
    attempts,       \* the s3.upload_file calls made: [file, key, result]
    nextUid,        \* how many uuid4 values were drawn
    clock,          \* the container's clock, in seconds
    user_lines,     \* number of lines user code printed
    stdout,         \* the container's standard output, as text
    stderr,         \* the container's standard error, as text
    secret,         \* the value of a secret of the --env-file
    keys,           \* the upload keys generated so far, in order
    calls,          \* two concurrent calls: position, staged path, run, result
    hostfs,         \* the staged files present in the host's temp directory
    content,        \* how many chunks each name created in /app holds
    objects         \* the bucket: what each successful s3.upload_file stored

hostVars == <<pc, tmpfile_exists, tmpfile_path, docker_test, image_test, runs,
              client, outcome, cause, uploaded_urls, ret, collecting_end, message>>
boxVars == <<container, exit_code, user, files, sentinel, event_queue, watcher,
             observer, uploaded_files, recorded, attempts, nextUid, clock,
             user_lines, stdout, stderr, secret, keys>>
pairVars == <<calls, hostfs>>
appVars == <<content, objects>>
vars == <<hostVars, boxVars, pairVars, appVars>>

-----------------------------------------------------------------------------
(* Bounds *)
MaxFiles == 2
MaxUserLines == 1
MaxClock == 0
MaxLines == 6

\* the most tokens the container writes to its stderr
MaxErr == 3

\* the most upload keys generated
MaxKeys == 3

\* the most lines the run of one of two concurrent calls prints
MaxPairLines == 2

\* the number of chunks user code writes to a file after creating it
MaxChunks == 1

-----------------------------------------------------------------------------
(* str methods on token sequences *)

IsSpace(c) == c \in {"SP", "NL"}

RECURSIVE lstrip(_)
lstrip(s) == IF s # <<>> /\ IsSpace(Head(s)) THEN lstrip(Tail(s)) ELSE s

RECURSIVE rstrip(_)
rstrip(s) ==
    IF s # <<>> /\ IsSpace(s[Len(s)]) THEN rstrip(SubSeq(s, 1, Len(s) - 1)) ELSE s

strip(s) == rstrip(lstrip(s))

startswith(s, p) == Len(s) >= Len(p) /\ SubSeq(s, 1, Len(p)) = p

endswith(s, p) == Len(s) >= Len(p) /\ SubSeq(s, Len(s) - Len(p) + 1, Len(s)) = p

\* index of the first c in s, 0 when there is none
find(s, c) ==
    LET I == {i \in 1..Len(s) : s[i] = c}
    IN  IF I = {} THEN 0 ELSE CHOOSE i \in I : \A j \in I : i <= j

\* index of the last c in s, 0 when there is none
rfind(s, c) ==
    LET I == {i \in 1..Len(s) : s[i] = c}
    IN  IF I = {} THEN 0 ELSE CHOOSE i \in I : \A j \in I : i >= j

RECURSIVE splitlines(_)
splitlines(s) ==
    IF s = <<>> THEN <<>>
    ELSE LET i == find(s, "NL")
         IN  IF i = 0 THEN <<s>>
             ELSE <<SubSeq(s, 1, i - 1)>> \o splitlines(SubSeq(s, i + 1, Len(s)))

RECURSIVE join(_, _)
join(sep, items) ==
    IF items = <<>> THEN <<>>
    ELSE IF Len(items) = 1 THEN items[1]
    ELSE items[1] \o sep \o join(sep, Tail(items))

UpperToLower ==
    [c \in {"P", "Y", "C", "L", "O", "G", "T", "M"} |->
        CASE c = "P" -> "p" [] c = "Y" -> "y" [] c = "C" -> "c" [] c = "L" -> "l"
          [] c = "O" -> "o" [] c = "G" -> "g" [] c = "T" -> "t" [] c = "M" -> "m"]

lower(s) == [i \in 1..Len(s) |-> IF s[i] \in DOMAIN UpperToLower THEN UpperToLower[s[i]] ELSE s[i]]

\* os.path.basename: what follows the last "/"
basename(p) == SubSeq(p, rfind(p, "/") + 1, Len(p))

\* os.path.splitext on a name without "/": the extension starts at the last
\* dot, unless only dots precede that dot
splitext(p) ==
    LET dotIndex == rfind(p, ".")
    IN  IF dotIndex > 0 /\ \E i \in 1..(dotIndex - 1) : p[i] # "."
        THEN <<SubSeq(p, 1, dotIndex - 1), SubSeq(p, dotIndex, Len(p))>>
        ELSE <<p, <<>>>>

\* print(x): x and a line break
print(out, line) == out \o line \o <<"NL">>


-----------------------------------------------------------------------------
(* watcher.py: constants *)

watch_path == <<"/", "a", "p", "p">>
DONE_SUFFIX == <<".", "d", "o", "n", "e">>
MARKER == <<"MARK">>
HTTP == <<"http">>
WLOG == <<"[Watcher]">>
presigned_url_expiry == 10800

IGNORED_FILES == {<<".", "D", "S", "_", "S", "t", "o", "r", "e">>,
                  <<"T", "h", "u", "m", "b", "s", ".", "d", "b">>}

IGNORED_EXTENSIONS == {<<".", "p", "y", "c">>, <<".", "l", "o", "g">>, <<".", "t", "m", "p">>}

IGNORED_PREFIXES == {<<"_", "_", "p", "y", "c", "a", "c", "h", "e", "_", "_">>, <<".">>}

\* the names user code may give a file (or, last, a directory) it creates in /app
FileNames ==
    { <<"o", ".", "t", "x", "t">>,                               \* o.txt
      <<"a", ".", "P", "Y", "C">>,                               \* a.PYC
      <<"t", "h", "u", "m", "b", "s", ".", "d", "b">>,           \* thumbs.db
      <<"_", "_", "p", "y", "c", "a", "c", "h", "e", "_", "_">>, \* __pycache__
      <<"x", ".", "d", "o", "n", "e">> }                         \* x.done
DirNames == { <<"s", "u", "b">> }

\* a creation event of watchdog: the path and whether it is a directory
Event(name, isdir) == [src_path |-> watch_path \o <<"/">> \o name, is_directory |-> isdir]

-----------------------------------------------------------------------------
(* watcher.py: get_unique_s3_obj_key and the handler's decisions *)

\* datetime.now() to the second and a uuid4, as text
strftime(t) == <<"T", ToString(t)>>
uuid4(n) == <<"U", ToString(n)>>

\* a key made of the second and the extension alone
get_unique_s3_obj_key_NoUid(now, uid, extension) == now \o extension

\* watcher.py lines 26-29: f"{now}_{uid}{extension}", the extension with its dot
get_unique_s3_obj_key(now, uid, extension) == now \o <<"_">> \o uid \o extension

\* Utils.py lines 28-32: f"{now}_{uid}.{extension}", the extension without dot
Utils_get_unique_s3_obj_key(now, uid, extension) ==
    now \o <<"_">> \o uid \o <<".">> \o extension

\* s3.generate_presigned_url: an https URL holding the key and the expiry
generate_presigned_url(key) == HTTP \o key

\* line 56: directories and names ending in ".done" are dropped silently
IsDropped(event) == event.is_directory \/ endswith(event.src_path, DONE_SUFFIX)

\* the filter with the extension compared as written, not lower-cased
IsIgnored_CaseSensitive(filename) ==
    LET ext == splitext(filename)[2]
    IN  \/ filename \in IGNORED_FILES
        \/ ext \in IGNORED_EXTENSIONS
        \/ \E prefix \in IGNORED_PREFIXES : startswith(filename, prefix)

\* lines 64-68: the three-rule ignore filter
IsIgnored(filename) ==
    LET ext == splitext(filename)[2]
    IN  \/ filename \in IGNORED_FILES
        \/ lower(ext) \in IGNORED_EXTENSIONS
        \/ \E prefix \in IGNORED_PREFIXES : startswith(filename, prefix)

-----------------------------------------------------------------------------
(* py_runtime.py: the parser of the marker block and the except clauses *)

\* the loop without the collecting flag: every http line is taken
RECURSIVE parse_loop_NoFlag(_, _, _)
parse_loop_NoFlag(lines, collecting, urls) ==
    IF lines = <<>> THEN urls
    ELSE LET line == Head(lines)
         IN  IF strip(line) = MARKER
             THEN parse_loop_NoFlag(Tail(lines), TRUE, urls)
             ELSE IF startswith(strip(line), HTTP)
             THEN parse_loop_NoFlag(Tail(lines), collecting, Append(urls, strip(line)))
             ELSE parse_loop_NoFlag(Tail(lines), collecting, urls)

\* the loop with a marker line that starts the collection afresh
RECURSIVE parse_loop_ResetOnMarker(_, _, _)
parse_loop_ResetOnMarker(lines, collecting, urls) ==
    IF lines = <<>> THEN urls
    ELSE LET line == Head(lines)
         IN  IF strip(line) = MARKER
             THEN parse_loop_ResetOnMarker(Tail(lines), TRUE, <<>>)
             ELSE IF collecting /\ startswith(strip(line), HTTP)
             THEN parse_loop_ResetOnMarker(Tail(lines), collecting,
                                           Append(urls, strip(line)))
             ELSE parse_loop_ResetOnMarker(Tail(lines), collecting, urls)

RECURSIVE parse_loop(_, _, _)
parse_loop(lines, collecting, urls) ==
    IF lines = <<>> THEN urls
    ELSE LET line == Head(lines)
         IN  IF strip(line) = MARKER
             THEN parse_loop(Tail(lines), TRUE, urls)
             ELSE IF collecting /\ startswith(strip(line), HTTP)
             THEN parse_loop(Tail(lines), collecting, Append(urls, strip(line)))
             ELSE parse_loop(Tail(lines), collecting, urls)

\* lines 79-83: the flag collecting once the loop has gone through lines
RECURSIVE collecting_after(_, _)
collecting_after(lines, collecting_now) ==
    IF lines = <<>> THEN collecting_now
    ELSE IF strip(Head(lines)) = MARKER
    THEN collecting_after(Tail(lines), TRUE)
    ELSE collecting_after(Tail(lines), collecting_now)

\* lines 76-85
parse_urls(out) == parse_loop(splitlines(strip(out)), FALSE, <<>>)

\* the except clauses with the catch-all clause first
ExceptClause_CatchAllFirst(exc) == "RuntimeError"

\* lines 92-105: the class raised to the caller for an exception of the try block
ExceptClause(exc) ==
    CASE exc = "TimeoutExpired"    -> "TimeoutError"
      [] exc = "FileNotFoundError" -> "FileNotFoundError"
      [] exc = "PermissionError"   -> "PermissionError"
      [] OTHER                     -> "RuntimeError"

\* lines 92-105: the text of the error raised to the caller, for an exception
\* of the try block whose own text is text
ExceptMessage(exc, text) ==
    CASE exc = "TimeoutExpired"    -> <<"Code execution timed out.">>
      [] exc = "FileNotFoundError" -> <<"Docker not found.">>
      [] exc = "PermissionError"   -> <<"Permission denied.">>
      [] OTHER                     -> <<"Unexpected error:", "SP">> \o text

\* line 74: f"Docker failed: {result.stderr.strip()}"
DockerFailedText(err) == <<"Docker failed:", "SP">> \o strip(err)

\* a finally clause that removes nothing
Finally_Skip(path, exists) == exists

\* lines 106-108: the finally clause removes the file the bound path names
Finally(path, exists) == IF path = "bound" /\ exists THEN FALSE ELSE exists

-----------------------------------------------------------------------------
(* Two concurrent calls of exec_py_runtime *)

\* the two calls, before either has started: no path bound, no run, no result
Callers == {1, 2}
IdleCalls ==
    [i \in Callers |-> [pc |-> "start", path |-> "unbound", ran |-> 0,
                        out |-> <<>>, urls |-> <<>>]]

\* the names the temp directory can give a new file
TempNames == {"tmp_a", "tmp_b", "tmp_c"}

\* a file of the temp directory is a pair of its name and the call whose code
\* it holds
NamesIn(fs) == {f[1] : f \in fs}
Remove(fs, name) == {f \in fs : f[1] # name}

\* the URL line the watcher of call i's container prints
PairUrl(i) == generate_presigned_url(<<"run", ToString(i)>>)

\* staging under one fixed name, overwriting what is there
PairStage_FixedName(i) ==
    /\ calls[i].pc = "start"
    /\ hostfs' = Remove(hostfs, "tmp_a") \cup {<<"tmp_a", i>>}
    /\ calls' = [calls EXCEPT ![i].pc = "staged", ![i].path = "tmp_a"]
    /\ UNCHANGED <<hostVars, boxVars, appVars>>

\* lines 24-28: NamedTemporaryFile creates, exclusively, a file under a name
\* no file of the directory has, and the code is written to it
PairStage(i) ==
    /\ calls[i].pc = "start"
    /\ \E name \in TempNames \ NamesIn(hostfs) :
          /\ hostfs' = hostfs \cup {<<name, i>>}
          /\ calls' = [calls EXCEPT ![i].pc = "staged", ![i].path = name]
    /\ UNCHANGED <<hostVars, boxVars, appVars>>

\* lines 55-68: docker run starts a container of its own (--rm, no --name)
\* with the file at the staged path mounted as /app/code.py
PairLaunch(i) ==
    /\ calls[i].pc = "staged"
    /\ calls' = [calls EXCEPT
                    ![i].pc = "waiting",
                    ![i].ran = IF calls[i].path \in NamesIn(hostfs)
                               THEN (CHOOSE f \in hostfs : f[1] = calls[i].path)[2]
                               ELSE 0]
    /\ UNCHANGED hostfs
    /\ UNCHANGED <<hostVars, boxVars, appVars>>

\* the container of call i writes the next line of its report to the pipe
\* subprocess.run opened for this call (capture_output=True)
PairPrint(i) ==
    /\ calls[i].pc = "waiting"
    /\ Len(splitlines(calls[i].out)) < MaxPairLines
    /\ calls' = [calls EXCEPT
                    ![i].out = print(@, IF @ = <<>> THEN MARKER
                                        ELSE PairUrl(calls[i].ran))]
    /\ UNCHANGED hostfs
    /\ UNCHANGED <<hostVars, boxVars, appVars>>

\* lines 70-90 and 106-109: exit code 0, the parser reads result.stdout, and
\* the finally clause removes the file at the staged path
PairReturn(i) ==
    /\ calls[i].pc = "waiting"
    /\ calls' = [calls EXCEPT ![i].pc = "done", ![i].urls = parse_urls(calls[i].out)]
    /\ hostfs' = Remove(hostfs, calls[i].path)
    /\ UNCHANGED <<hostVars, boxVars, appVars>>

\* lines 31-52, 66-74 and 92-109: a preflight check fails, the deadline
\* elapses or the exit code is not 0: the call raises, and the finally
\* clause removes the file at the staged path
PairRaise(i) ==
    /\ calls[i].pc \in {"staged", "waiting"}
    /\ calls' = [calls EXCEPT ![i].pc = "done"]
    /\ hostfs' = Remove(hostfs, calls[i].path)
    /\ UNCHANGED <<hostVars, boxVars, appVars>>

NextPair ==
    \E i \in Callers :
        \/ PairStage(i)
        \/ PairLaunch(i)
        \/ PairPrint(i)
        \/ PairReturn(i)
        \/ PairRaise(i)

\* lines 17-109: exec_py_runtime is a coroutine with no await in its body, and
\* its three subprocess.run calls block the thread.  An event loop runs one
\* coroutine at a time and switches only at an await: it is free for call i
\* when no other call is between its first and its last statement
OnLoop(i) == \A j \in Callers \ {i} : calls[j].pc \in {"start", "done"}

\* a step of the coroutine of call i on the event loop
LoopStep(i) ==
    /\ OnLoop(i)
    /\ \/ PairStage(i)
       \/ PairLaunch(i)
       \/ PairReturn(i)
       \/ PairRaise(i)

\* two calls scheduled on one event loop, and their containers
NextLoop ==
    \E i \in Callers :
        \/ LoopStep(i)
        \/ PairPrint(i)

-----------------------------------------------------------------------------
(* exec_py_runtime, py_runtime.py lines 17-109 *)

\* an exception exc leaves the try block: the except clause picks the class
\* raised to the caller and the finally clause runs
Raise(exc, text, why, path, exists) ==
    /\ pc' = "done"
    /\ outcome' = ExceptClause(exc)
    /\ message' = ExceptMessage(exc, text)
    /\ cause' = why
    /\ tmpfile_path' = path
    /\ tmpfile_exists' = Finally(path, exists)

\* lines 26-29: NamedTemporaryFile(delete=False), write, bind tmpfile_path
Stage ==
    /\ pc = "start"
    /\ \/ \* creating the file raises: nothing exists, nothing is bound
          \E exc \in {"FileNotFoundError", "PermissionError", "OSError"} :
              Raise(exc, <<exc>>, "stage_failed", "unbound", FALSE)
       \/ \* encode or write raises after the file was created
          \E exc \in {"UnicodeEncodeError", "OSError"} :
              Raise(exc, <<exc>>, "stage_failed", "unbound", TRUE)
       \/ /\ tmpfile_exists' = TRUE
          /\ tmpfile_path' = "bound"
          /\ pc' = "staged"
          /\ UNCHANGED <<outcome, cause, message>>
    /\ UNCHANGED <<docker_test, image_test, runs, client, uploaded_urls, ret, collecting_end>>
    /\ UNCHANGED pairVars
    /\ UNCHANGED appVars
    /\ UNCHANGED boxVars

\* lines 32-38: subprocess.run(["docker", "--version"])
CheckDocker ==
    /\ pc = "staged"
    /\ \E r \in {"ok", "nonzero", "FileNotFoundError", "PermissionError"} :
        /\ docker_test' = r
        /\ CASE r = "ok" ->
                  /\ pc' = "docker_ok"
                  /\ UNCHANGED <<outcome, cause, message, tmpfile_path, tmpfile_exists>>
             [] r = "nonzero" ->
                  Raise("EnvironmentError", <<"Docker is not installed or not accessible.">>,
                        "runtime_unreachable", tmpfile_path, tmpfile_exists)
             [] r = "FileNotFoundError" ->
                  Raise("FileNotFoundError", <<"No such file: docker">>,
                        "runtime_unreachable", tmpfile_path, tmpfile_exists)
             [] r = "PermissionError" ->
                  Raise("PermissionError", <<"Permission denied: docker">>,
                        "permission_denied", tmpfile_path, tmpfile_exists)
    /\ UNCHANGED <<image_test, runs, client, uploaded_urls, ret, collecting_end>>
    /\ UNCHANGED pairVars
    /\ UNCHANGED appVars
    /\ UNCHANGED boxVars

\* the image check with its return code never looked at
CheckImage_Unchecked ==
    /\ pc = "docker_ok"
    /\ \E r \in {"ok", "nonzero"} : image_test' = r
    /\ pc' = "image_ok"
    /\ UNCHANGED <<outcome, cause, message, tmpfile_path, tmpfile_exists>>
    /\ UNCHANGED <<docker_test, runs, client, uploaded_urls, ret, collecting_end>>
    /\ UNCHANGED pairVars
    /\ UNCHANGED appVars
    /\ UNCHANGED boxVars

\* lines 41-52: subprocess.run(["docker", "inspect", DOCKER_CONTAINER_NAME])
CheckImage ==
    /\ pc = "docker_ok"
    /\ \E r \in {"ok", "nonzero"} :
        /\ image_test' = r
        /\ IF r = "ok"
           THEN /\ pc' = "image_ok"
                /\ UNCHANGED <<outcome, cause, message, tmpfile_path, tmpfile_exists>>
           ELSE Raise("ValueError", <<"Image not found or inaccessible.">>,
                      "image_missing", tmpfile_path, tmpfile_exists)
    /\ UNCHANGED <<docker_test, runs, client, uploaded_urls, ret, collecting_end>>
    /\ UNCHANGED pairVars
    /\ UNCHANGED appVars
    /\ UNCHANGED boxVars

\* lines 31-33 and 40-42: both checks call subprocess.run without a timeout;
\* a docker client that never exits (an unresponsive daemon) leaves the call
\* inside that subprocess.run
CheckHangs ==
    /\ pc \in {"staged", "docker_ok"}
    /\ pc' = "blocked"
    /\ IF pc = "staged"
       THEN docker_test' = "hangs" /\ UNCHANGED image_test
       ELSE image_test' = "hangs" /\ UNCHANGED docker_test
    /\ UNCHANGED <<tmpfile_exists, tmpfile_path, runs, client, outcome, cause,
                   uploaded_urls, ret, collecting_end, message>>
    /\ UNCHANGED pairVars
    /\ UNCHANGED appVars
    /\ UNCHANGED boxVars

\* lines 55-68: subprocess.run(docker_cmd, timeout=timeout) starts the client;
\* the container starts with the watcher observing /app and user code running
Launch ==
    /\ pc = "image_ok"
    /\ pc' = "waiting"
    /\ runs' = runs + 1
    /\ client' = "alive"
    /\ container' = "alive"
    /\ user' = "running"
    /\ watcher' = "polling"
    /\ observer' = "running"
    /\ stdout' = print(stdout, WLOG)
    /\ UNCHANGED <<tmpfile_exists, tmpfile_path, docker_test, image_test, outcome,
                   cause, uploaded_urls, ret, collecting_end, message>>
    /\ UNCHANGED <<exit_code, files, sentinel, event_queue, uploaded_files, recorded,
                   attempts, nextUid, clock, user_lines>>
    /\ UNCHANGED <<stderr, secret, keys>>
    /\ UNCHANGED pairVars
    /\ UNCHANGED appVars

\* the result assembly with an empty URL list treated as a failure
RunReturns_RaiseOnEmpty ==
    /\ pc = "waiting"
    /\ client = "exited"
    /\ IF exit_code # 0 \/ parse_urls(stdout) = <<>>
       THEN /\ Raise("RuntimeError", DockerFailedText(stderr), "nonzero_exit",
                     tmpfile_path, tmpfile_exists)
            /\ UNCHANGED <<uploaded_urls, ret, collecting_end>>
       ELSE /\ uploaded_urls' = parse_urls(stdout)
            /\ collecting_end' = collecting_after(splitlines(strip(stdout)), FALSE)
            /\ ret' = join(<<",", "SP">>, uploaded_urls')
            /\ outcome' = "return"
            /\ pc' = "done"
            /\ tmpfile_exists' = Finally(tmpfile_path, tmpfile_exists)
            /\ UNCHANGED <<cause, message, tmpfile_path>>
    /\ UNCHANGED <<docker_test, image_test, runs, client>>
    /\ UNCHANGED pairVars
    /\ UNCHANGED appVars
    /\ UNCHANGED boxVars

\* lines 66-90: the client has exited; classify the exit code, parse stdout
RunReturns ==
    /\ pc = "waiting"
    /\ client = "exited"
    /\ IF exit_code # 0
       THEN /\ Raise("RuntimeError", DockerFailedText(stderr), "nonzero_exit",
                     tmpfile_path, tmpfile_exists)
            /\ UNCHANGED <<uploaded_urls, ret, collecting_end>>
       ELSE /\ uploaded_urls' = parse_urls(stdout)
            /\ collecting_end' = collecting_after(splitlines(strip(stdout)), FALSE)
            /\ ret' = join(<<",", "SP">>, uploaded_urls')
            /\ outcome' = "return"
            /\ pc' = "done"
            /\ tmpfile_exists' = Finally(tmpfile_path, tmpfile_exists)
            /\ UNCHANGED <<cause, message, tmpfile_path>>
    /\ UNCHANGED <<docker_test, image_test, runs, client>>
    /\ UNCHANGED pairVars
    /\ UNCHANGED appVars
    /\ UNCHANGED boxVars

\* lines 66-68 and 92-94: the deadline elapses first; subprocess.run kills and
\* reaps the process it started, the docker client, and raises TimeoutExpired
Timeout ==
    /\ pc = "waiting"
    /\ client = "alive"
    /\ client' = "killed"
    /\ Raise("TimeoutExpired", <<>>, "timeout", tmpfile_path, tmpfile_exists)
    /\ UNCHANGED <<docker_test, image_test, runs, uploaded_urls, ret, collecting_end>>
    /\ UNCHANGED pairVars
    /\ UNCHANGED appVars
    /\ UNCHANGED boxVars

-----------------------------------------------------------------------------
(* Inside the container: user code, the entry point, watcher.py *)

\* what user code may print to the container's stdout with one print: an
\* http line, or a forged marker line followed by an http line
UserLines == {HTTP \o <<"e">>, MARKER \o <<"NL">> \o HTTP \o <<"e">>}

\* user code creates a file or a directory in /app: inotify queues the event
UserCreate ==
    /\ container = "alive"
    /\ user = "running"
    /\ Cardinality(files) < MaxFiles
    /\ \E isdir \in BOOLEAN :
       \E name \in (IF isdir THEN DirNames ELSE FileNames) \ files :
        /\ files' = files \cup {name}
        /\ content' = (name :> 0) @@ content
        /\ event_queue' = IF observer = "running"
                          THEN Append(event_queue, Event(name, isdir))
                          ELSE event_queue
    /\ UNCHANGED hostVars
    /\ UNCHANGED <<container, exit_code, user, sentinel, watcher, observer,
                   uploaded_files, recorded, attempts, nextUid, clock, user_lines,
                   stdout>>
    /\ UNCHANGED <<stderr, secret, keys>>
    /\ UNCHANGED pairVars
    /\ UNCHANGED objects

\* user code prints a line
UserPrint ==
    /\ container = "alive"
    /\ user = "running"
    /\ user_lines < MaxUserLines
    /\ \E line \in UserLines : stdout' = print(stdout, line)
    /\ user_lines' = user_lines + 1
    /\ UNCHANGED hostVars
    /\ UNCHANGED <<container, exit_code, user, files, sentinel, event_queue, watcher,
                   observer, uploaded_files, recorded, attempts, nextUid, clock>>
    /\ UNCHANGED <<stderr, secret, keys>>
    /\ UNCHANGED pairVars
    /\ UNCHANGED appVars

\* user code writes the next chunk to a file it has created and not yet
\* finished, a file of MaxChunks chunks
UserWrite ==
    /\ container = "alive"
    /\ user = "running"
    /\ \E name \in (DOMAIN content) \ DirNames :
        /\ content[name] < MaxChunks
        /\ content' = [content EXCEPT ![name] = @ + 1]
    /\ UNCHANGED hostVars
    /\ UNCHANGED <<container, exit_code, user, files, sentinel, event_queue, watcher,
                   observer, uploaded_files, recorded, attempts, nextUid, clock,
                   user_lines, stdout>>
    /\ UNCHANGED <<stderr, secret, keys>>
    /\ UNCHANGED pairVars
    /\ UNCHANGED objects

\* user code ends
UserExit ==
    /\ container = "alive"
    /\ user = "running"
    /\ user' = "exited"
    /\ UNCHANGED hostVars
    /\ UNCHANGED <<container, exit_code, files, sentinel, event_queue, watcher,
                   observer, uploaded_files, recorded, attempts, nextUid, clock,
                   user_lines, stdout>>
    /\ UNCHANGED <<stderr, secret, keys>>
    /\ UNCHANGED pairVars
    /\ UNCHANGED appVars

\* the entry point creates the sentinel /app/.done once user code has ended
CreateSentinel ==
    /\ container = "alive"
    /\ user = "exited"
    /\ ~sentinel
    /\ sentinel' = TRUE
    /\ event_queue' = IF observer = "running"
                      THEN Append(event_queue, Event(DONE_SUFFIX, FALSE))
                      ELSE event_queue
    /\ UNCHANGED hostVars
    /\ UNCHANGED <<container, exit_code, user, files, watcher, observer,
                   uploaded_files, recorded, attempts, nextUid, clock, user_lines,
                   stdout>>
    /\ UNCHANGED <<stderr, secret, keys>>
    /\ UNCHANGED pairVars
    /\ UNCHANGED appVars

\* on_created without the try block of lines 72-88: a failing upload ends the
\* observer thread
OnCreated_AbortOnFailure ==
    /\ container = "alive"
    /\ observer = "running"
    /\ event_queue # <<>>
    /\ event_queue' = Tail(event_queue)
    /\ LET event == Head(event_queue)
           filename == basename(event.src_path)
           ext == splitext(filename)[2]
       IN  IF IsDropped(event)
           THEN UNCHANGED <<uploaded_files, recorded, attempts, nextUid, clock, stdout,
                            objects>>
           ELSE IF IsIgnored(filename)
           THEN /\ stdout' = print(stdout, WLOG)
                /\ UNCHANGED <<uploaded_files, recorded, attempts, nextUid, clock,
                               objects>>
           ELSE \E t \in {clock, IF clock < MaxClock THEN clock + 1 ELSE clock} :
                \E result \in {"ok", "failed"} :
                    LET key == get_unique_s3_obj_key(strftime(t), uuid4(nextUid), ext)
                        presigned_url == generate_presigned_url(key)
                    IN  /\ clock' = t
                        /\ nextUid' = nextUid + 1
                        /\ attempts' = attempts \cup
                              {[file |-> filename, key |-> key, result |-> result]}
                        /\ uploaded_files' = IF result = "ok"
                                             THEN uploaded_files \cup {presigned_url}
                                             ELSE uploaded_files
                        /\ recorded' = IF result = "ok"
                                       THEN Append(recorded, presigned_url)
                                       ELSE recorded
                        \* upload_file stores what the file holds now
                        /\ objects' = IF result = "ok"
                                      THEN objects \cup
                                           {[key |-> key, file |-> filename,
                                             chunks |-> content[filename]]}
                                      ELSE objects
                        \* New file created, Bucket, then Uploaded or Failed
                        /\ stdout' = print(print(print(stdout, WLOG), WLOG), WLOG)
    /\ UNCHANGED hostVars
    /\ observer' = IF \E a \in attempts' \ attempts : a.result = "failed"
                   THEN "stopped" ELSE observer
    /\ UNCHANGED <<container, exit_code, user, files, sentinel, watcher, user_lines>>
    /\ UNCHANGED <<stderr, secret, keys>>
    /\ UNCHANGED pairVars
    /\ UNCHANGED content

\* watcher.py lines 55-88: the observer thread takes the next event and runs
\* UploadHandler.on_created on it
OnCreated ==
    /\ container = "alive"
    /\ observer = "running"
    /\ event_queue # <<>>
    /\ event_queue' = Tail(event_queue)
    /\ LET event == Head(event_queue)
           filename == basename(event.src_path)
           ext == splitext(filename)[2]
       IN  IF IsDropped(event)
           THEN UNCHANGED <<uploaded_files, recorded, attempts, nextUid, clock, stdout,
                            objects>>
           ELSE IF IsIgnored(filename)
           THEN /\ stdout' = print(stdout, WLOG)
                /\ UNCHANGED <<uploaded_files, recorded, attempts, nextUid, clock,
                               objects>>
           ELSE \E t \in {clock, IF clock < MaxClock THEN clock + 1 ELSE clock} :
                \E result \in {"ok", "failed"} :
                    LET key == get_unique_s3_obj_key(strftime(t), uuid4(nextUid), ext)
                        presigned_url == generate_presigned_url(key)
                    IN  /\ clock' = t
                        /\ nextUid' = nextUid + 1
                        /\ attempts' = attempts \cup
                              {[file |-> filename, key |-> key, result |-> result]}
                        /\ uploaded_files' = IF result = "ok"
                                             THEN uploaded_files \cup {presigned_url}
                                             ELSE uploaded_files
                        /\ recorded' = IF result = "ok"
                                       THEN Append(recorded, presigned_url)
                                       ELSE recorded
                        \* upload_file stores what the file holds now
                        /\ objects' = IF result = "ok"
                                      THEN objects \cup
                                           {[key |-> key, file |-> filename,
                                             chunks |-> content[filename]]}
                                      ELSE objects
                        \* New file created, Bucket, then Uploaded or Failed
                        /\ stdout' = print(print(print(stdout, WLOG), WLOG), WLOG)
    /\ UNCHANGED hostVars
    /\ UNCHANGED <<container, exit_code, user, files, sentinel, watcher, observer,
                   user_lines>>
    /\ UNCHANGED <<stderr, secret, keys>>
    /\ UNCHANGED pairVars
    /\ UNCHANGED content

\* a main loop that leaves at its first poll, sentinel or not
Poll_WithoutSentinel ==
    /\ container = "alive"
    /\ watcher = "polling"
    /\ watcher' = "draining"
    /\ stdout' = print(stdout, WLOG)
    /\ UNCHANGED hostVars
    /\ UNCHANGED <<container, exit_code, user, files, sentinel, event_queue, observer,
                   uploaded_files, recorded, attempts, nextUid, clock, user_lines>>
    /\ UNCHANGED <<stderr, secret, keys>>
    /\ UNCHANGED pairVars
    /\ UNCHANGED appVars

\* watcher.py lines 99-104: a poll that finds /app/.done
Poll ==
    /\ container = "alive"
    /\ watcher = "polling"
    /\ sentinel
    /\ watcher' = "draining"
    /\ stdout' = print(stdout, WLOG)
    /\ UNCHANGED hostVars
    /\ UNCHANGED <<container, exit_code, user, files, sentinel, event_queue, observer,
                   uploaded_files, recorded, attempts, nextUid, clock, user_lines>>
    /\ UNCHANGED <<stderr, secret, keys>>
    /\ UNCHANGED pairVars
    /\ UNCHANGED appVars

\* the orders in which iterating a set can yield its elements
Orders(S) ==
    {f \in [1..Cardinality(S) -> S] : \A i, j \in 1..Cardinality(S) : f[i] = f[j] => i = j}

RECURSIVE print_all(_, _)
print_all(out, lines) ==
    IF lines = <<>> THEN out ELSE print_all(print(out, Head(lines)), Tail(lines))

\* the report printed while the observer thread is left running
Report_WithoutJoin ==
    /\ container = "alive"
    /\ watcher = "draining"
    /\ watcher' = "finished"
    /\ \E order \in Orders(uploaded_files) :
          stdout' = print_all(print(stdout, MARKER), order)
    /\ UNCHANGED observer
    /\ UNCHANGED hostVars
    /\ UNCHANGED <<container, exit_code, user, files, sentinel, event_queue,
                   uploaded_files, recorded, attempts, nextUid, clock, user_lines>>
    /\ UNCHANGED <<stderr, secret, keys>>
    /\ UNCHANGED pairVars
    /\ UNCHANGED appVars

\* watcher.py lines 102-114: the drain sleep is over; observer.stop() and
\* observer.join() end the observer thread, events still queued are never
\* handled; then the marker and the URLs of the set are printed
Report ==
    /\ container = "alive"
    /\ watcher = "draining"
    /\ observer' = "stopped"
    /\ watcher' = "finished"
    /\ \E order \in Orders(uploaded_files) :
          stdout' = print_all(print(stdout, MARKER), order)
    /\ UNCHANGED hostVars
    /\ UNCHANGED <<container, exit_code, user, files, sentinel, event_queue,
                   uploaded_files, recorded, attempts, nextUid, clock, user_lines>>
    /\ UNCHANGED <<stderr, secret, keys>>
    /\ UNCHANGED pairVars
    /\ UNCHANGED appVars

\* watcher.py lines 98-114: a KeyboardInterrupt (SIGINT) reaches the main thread
\* in its loop or in the drain sleep: observer.stop(), then stop, join and the
\* report as after a drain
Interrupt ==
    /\ container = "alive"
    /\ watcher \in {"polling", "draining"}
    /\ observer' = "stopped"
    /\ watcher' = "finished"
    /\ \E order \in Orders(uploaded_files) :
          stdout' = print_all(print(stdout, MARKER), order)
    /\ UNCHANGED hostVars
    /\ UNCHANGED <<container, exit_code, user, files, sentinel, event_queue,
                   uploaded_files, recorded, attempts, nextUid, clock, user_lines>>
    /\ UNCHANGED <<stderr, secret, keys>>
    /\ UNCHANGED pairVars
    /\ UNCHANGED appVars

\* the watcher has ended: the container exits with code 0 and so does the client
ContainerExit ==
    /\ container = "alive"
    /\ watcher = "finished"
    /\ container' = "exited"
    /\ exit_code' = 0
    /\ client' = IF client = "alive" THEN "exited" ELSE client
    /\ UNCHANGED <<pc, tmpfile_exists, tmpfile_path, docker_test, image_test, runs,
                   outcome, cause, uploaded_urls, ret, collecting_end, message>>
    /\ UNCHANGED <<user, files, sentinel, event_queue, watcher, observer,
                   uploaded_files, recorded, attempts, nextUid, clock, user_lines,
                   stdout>>
    /\ UNCHANGED <<stderr, secret, keys>>
    /\ UNCHANGED pairVars
    /\ UNCHANGED appVars

\* the container is killed (the memory ceiling of --memory): exit code 137
ContainerKilled ==
    /\ container = "alive"
    /\ container' = "exited"
    /\ exit_code' = 137
    /\ user' = "exited"
    /\ observer' = "stopped"
    /\ client' = IF client = "alive" THEN "exited" ELSE client
    /\ UNCHANGED <<pc, tmpfile_exists, tmpfile_path, docker_test, image_test, runs,
                   outcome, cause, uploaded_urls, ret, collecting_end, message>>
    /\ UNCHANGED <<files, sentinel, event_queue, watcher, uploaded_files, recorded,
                   attempts, nextUid, clock, user_lines, stdout>>
    /\ UNCHANGED <<stderr, secret, keys>>
    /\ UNCHANGED pairVars
    /\ UNCHANGED appVars

-----------------------------------------------------------------------------
(* The call and its run *)

Init ==
    /\ pc = "start"
    /\ tmpfile_exists = FALSE
    /\ tmpfile_path = "unbound"
    /\ docker_test = "none"
    /\ image_test = "none"
    /\ runs = 0
    /\ client = "none"
    /\ outcome = "none"
    /\ cause = "none"
    /\ uploaded_urls = <<>>
    /\ ret = <<>>
    /\ container = "none"
    /\ exit_code = 0
    /\ user = "none"
    /\ files = {}
    /\ sentinel = FALSE
    /\ event_queue = <<>>
    /\ watcher = "none"
    /\ observer = "none"
    /\ uploaded_files = {}
    /\ recorded = <<>>
    /\ attempts = {}
    /\ nextUid = 0
    /\ clock = 0
    /\ user_lines = 0
    /\ stdout = <<>>
    /\ collecting_end = FALSE
    /\ message = <<>>
    /\ stderr = <<>>
    /\ secret = "s1"
    /\ keys = <<>>
    /\ calls = IdleCalls
    /\ hostfs = {}
    /\ content = <<>>
    /\ objects = {}

Next ==
    \/ Stage
    \/ CheckDocker
    \/ CheckImage
    \/ CheckHangs
    \/ Launch
    \/ RunReturns
    \/ Timeout
    \/ UserCreate
    \/ UserPrint
    \/ UserExit
    \/ CreateSentinel
    \/ OnCreated
    \/ Poll
    \/ Report
    \/ Interrupt
    \/ ContainerExit
    \/ ContainerKilled

Spec == Init /\ [][Next]_vars

\* the steps of the call itself: straight-line code that goes on whenever it
\* can, and a deadline that elapses while the call waits for its run
CallStep == Stage \/ CheckDocker \/ CheckImage \/ Launch \/ Timeout

\* lines 66-70: subprocess.run returns once the docker client has exited
ReturnPending == pc = "waiting" /\ client = "exited"

\* the call keeps running: weak fairness of its steps.  RunReturns is enabled
\* exactly in the states of ReturnPending and always leaves them, so its weak
\* fairness is []<>~ReturnPending
SpecFair == Spec /\ WF_vars(CallStep) /\ []<>(~ReturnPending)

\* the watcher's main thread: the loop of lines 98-104 polls every 0.5 s and
\* the statements after it run as soon as the drain sleep is over
WatcherStep == Poll \/ Report

\* the container of a run on its own, from the state Launch leaves: user code
\* creates files and ends, the entry point creates the sentinel, the watcher
\* uploads, polls and reports
InitWatch ==
    /\ pc = "waiting"
    /\ tmpfile_exists = TRUE
    /\ tmpfile_path = "bound"
    /\ docker_test = "ok"
    /\ image_test = "ok"
    /\ runs = 1
    /\ client = "alive"
    /\ outcome = "none"
    /\ cause = "none"
    /\ uploaded_urls = <<>>
    /\ ret = <<>>
    /\ container = "alive"
    /\ exit_code = 0
    /\ user = "running"
    /\ files = {}
    /\ sentinel = FALSE
    /\ event_queue = <<>>
    /\ watcher = "polling"
    /\ observer = "running"
    /\ uploaded_files = {}
    /\ recorded = <<>>
    /\ attempts = {}
    /\ nextUid = 0
    /\ clock = 0
    /\ user_lines = 0
    /\ stdout = print(<<>>, WLOG)
    /\ collecting_end = FALSE
    /\ message = <<>>
    /\ stderr = <<>>
    /\ secret = "s1"
    /\ keys = <<>>
    /\ calls = IdleCalls
    /\ hostfs = {}
    /\ content = <<>>
    /\ objects = {}

NextWatch ==
    \/ UserCreate
    \/ UserWrite
    \/ UserExit
    \/ CreateSentinel
    \/ OnCreated
    \/ Poll
    \/ Report
    \/ Interrupt
    \/ ContainerExit
    \/ ContainerKilled

\* the main thread of the watcher keeps being scheduled
SpecWatch == InitWatch /\ [][NextWatch]_vars /\ WF_vars(WatcherStep)

\* the container while nothing ends the watcher from outside: no kill, no
\* KeyboardInterrupt
NextScheduled ==
    \/ UserCreate
    \/ UserWrite
    \/ UserExit
    \/ CreateSentinel
    \/ OnCreated
    \/ Poll
    \/ Report
    \/ ContainerExit

\* both threads of the watcher keep being scheduled: the main thread and the
\* observer thread that runs on_created for each queued event
\* OnCreated is enabled exactly in the states of EventPending, so its weak
\* fairness is: EventPending is false infinitely often or OnCreated steps
\* are taken infinitely often
EventPending == container = "alive" /\ observer = "running" /\ event_queue # <<>>

SpecWatchBoth ==
    /\ InitWatch /\ [][NextScheduled]_vars
    /\ WF_vars(WatcherStep)
    /\ ([]<>(~EventPending) \/ []<><<OnCreated>>_vars)

-----------------------------------------------------------------------------
(* The parser on its own: a launched run whose container writes any text  *)
(* of at most MaxLines lines to stdout and exits with either exit code    *)

LineShapes ==
    { MARKER,
      <<"SP", "MARK", "SP">>,
      HTTP \o <<"a">>,
      <<"SP">> \o HTTP \o <<"b", "SP">>,
      <<"x">> }

\* some process of the container writes a line to stdout
Emit ==
    /\ pc = "waiting"
    /\ container = "alive"
    /\ Len(splitlines(stdout)) < MaxLines
    /\ \E line \in LineShapes : stdout' = print(stdout, line)
    /\ UNCHANGED hostVars
    /\ UNCHANGED <<container, exit_code, user, files, sentinel, event_queue, watcher,
                   observer, uploaded_files, recorded, attempts, nextUid, clock,
                   user_lines>>
    /\ UNCHANGED <<stderr, secret, keys>>
    /\ UNCHANGED pairVars
    /\ UNCHANGED appVars

InitParse ==
    /\ pc = "waiting"
    /\ tmpfile_exists = TRUE
    /\ tmpfile_path = "bound"
    /\ docker_test = "ok"
    /\ image_test = "ok"
    /\ runs = 1
    /\ client = "alive"
    /\ outcome = "none"
    /\ cause = "none"
    /\ uploaded_urls = <<>>
    /\ ret = <<>>
    /\ container = "alive"
    /\ exit_code = 0
    /\ user = "exited"
    /\ files = {}
    /\ sentinel = TRUE
    /\ event_queue = <<>>
    /\ watcher = "finished"
    /\ observer = "stopped"
    /\ uploaded_files = {}
    /\ recorded = <<>>
    /\ attempts = {}
    /\ nextUid = 0
    /\ clock = 0
    /\ user_lines = 0
    /\ stdout = <<>>
    /\ collecting_end = FALSE
    /\ message = <<>>
    /\ stderr = <<>>
    /\ secret = "s1"
    /\ keys = <<>>
    /\ calls = IdleCalls
    /\ hostfs = {}
    /\ content = <<>>
    /\ objects = {}

NextParse ==
    \/ Emit
    \/ ContainerExit
    \/ ContainerKilled
    \/ RunReturns

SpecParse == InitParse /\ [][NextParse]_vars

-----------------------------------------------------------------------------
(* The error channel: what a failed run hands to the caller *)

\* the values a secret of the --env-file (line 60) may have
Secrets == {"s1", "s2"}

\* user code writes to stderr: a letter, a space or the value of the secret,
\* which it reads from its environment
WriteErr ==
    /\ container = "alive"
    /\ user = "running"
    /\ Len(stderr) < MaxErr
    /\ \E token \in {"E", "SP", secret} : stderr' = Append(stderr, token)
    /\ UNCHANGED hostVars
    /\ UNCHANGED <<container, exit_code, user, files, sentinel, event_queue, watcher,
                   observer, uploaded_files, recorded, attempts, nextUid, clock,
                   user_lines, stdout>>
    /\ UNCHANGED <<secret, keys>>
    /\ UNCHANGED pairVars
    /\ UNCHANGED appVars

\* the key and URL of the first upload of a run, for o.txt
FirstKey == get_unique_s3_obj_key(strftime(0), uuid4(0), <<".", "t", "x", "t">>)
FirstUrl == generate_presigned_url(FirstKey)

\* a launched run whose watcher has reported, after no upload or after the
\* upload of o.txt, while user code is still running
InitErr ==
    /\ pc = "waiting"
    /\ tmpfile_exists = TRUE
    /\ tmpfile_path = "bound"
    /\ docker_test = "ok"
    /\ image_test = "ok"
    /\ runs = 1
    /\ client = "alive"
    /\ outcome = "none"
    /\ cause = "none"
    /\ uploaded_urls = <<>>
    /\ ret = <<>>
    /\ collecting_end = FALSE
    /\ message = <<>>
    /\ container = "alive"
    /\ exit_code = 0
    /\ user = "running"
    /\ sentinel = FALSE
    /\ event_queue = <<>>
    /\ watcher = "finished"
    /\ observer = "stopped"
    /\ clock = 0
    /\ user_lines = 0
    /\ \/ /\ files = {}
          /\ attempts = {}
          /\ uploaded_files = {}
          /\ recorded = <<>>
          /\ nextUid = 0
          /\ stdout = print(print(<<>>, WLOG), MARKER)
       \/ /\ files = {<<"o", ".", "t", "x", "t">>}
          /\ attempts = {[file |-> <<"o", ".", "t", "x", "t">>, key |-> FirstKey,
                          result |-> "ok"]}
          /\ uploaded_files = {FirstUrl}
          /\ recorded = <<FirstUrl>>
          /\ nextUid = 1
          /\ stdout = print(print(print_all(<<>>, <<WLOG, WLOG, WLOG, WLOG>>),
                                   MARKER), FirstUrl)
    /\ stderr = <<>>
    /\ secret \in Secrets
    /\ keys = <<>>
    /\ calls = IdleCalls
    /\ hostfs = {}
    /\ content = <<>>
    /\ objects = {}

NextErr ==
    \/ WriteErr
    \/ UserExit
    \/ ContainerExit
    \/ ContainerKilled
    \/ RunReturns
    \/ Timeout

SpecErr == InitErr /\ [][NextErr]_vars

-----------------------------------------------------------------------------
(* Key generation: the watchers of two runs and the host's tools *)

\* the extensions keys are asked for, without the dot
Extensions == {<<"t", "x", "t">>, <<"p", "n", "g">>}

\* one call of a key generator: in the watcher of run 1 or of run 2 (for a
\* file with that extension) or in a tool of the host through Utils; each
\* call draws a uuid4, taken as never drawn before
GenKey ==
    /\ Len(keys) < MaxKeys
    /\ \E t \in {clock, IF clock < MaxClock THEN clock + 1 ELSE clock} :
       \E by \in {"watcher1", "watcher2", "Utils"} :
       \E extension \in Extensions :
          LET now == strftime(t)
              uid == uuid4(nextUid)
              key == IF by = "Utils"
                     THEN Utils_get_unique_s3_obj_key(now, uid, extension)
                     ELSE get_unique_s3_obj_key(now, uid, <<".">> \o extension)
          IN  /\ keys' = Append(keys, [by |-> by, now |-> now,
                                       extension |-> extension, key |-> key])
              /\ clock' = t
              /\ nextUid' = nextUid + 1
    /\ UNCHANGED hostVars
    /\ UNCHANGED <<container, exit_code, user, files, sentinel, event_queue, watcher,
                   observer, uploaded_files, recorded, attempts, user_lines, stdout>>
    /\ UNCHANGED <<stderr, secret>>
    /\ UNCHANGED pairVars
    /\ UNCHANGED appVars

NextKeys == GenKey

SpecKeys == Init /\ [][NextKeys]_vars

\* two calls of exec_py_runtime running concurrently
SpecPair == Init /\ [][NextPair]_vars

\* two calls of exec_py_runtime scheduled on the same event loop
SpecLoop == Init /\ [][NextLoop]_vars

-----------------------------------------------------------------------------
(* Vocabulary of the claims *)

\* the five failure causes of the taxonomy
FiveCauses == {"runtime_unreachable", "image_missing", "timeout", "permission_denied",
               "nonzero_exit"}

Errors == {"TimeoutError", "FileNotFoundError", "PermissionError", "RuntimeError"}

\* a noise file in the words of the ignore policy: one of the two names, a
\* name ending (in any letter case) in one of the three extensions, or a name
\* starting with __pycache__ or with a dot
IsNoise(name) ==
    \/ name \in IGNORED_FILES
    \/ \E e \in IGNORED_EXTENSIONS : endswith(lower(name), e)
    \/ \E prefix \in IGNORED_PREFIXES : startswith(name, prefix)

\* the file names of the model that are noise, and those that are not
NoiseFiles == {f \in FileNames : IsNoise(f)}
PlainFiles == FileNames \ NoiseFiles

\* the URLs of a marker block: the trimmed lines starting with http that come
\* after the first line whose trimmed text is the marker
IsMarkerLine(l) == strip(l) = MARKER
IsUrlLine(l) == startswith(strip(l), HTTP)
ExpectedUrls(L) ==
    LET M == {i \in 1..Len(L) : IsMarkerLine(L[i])}
    IN  IF M = {} THEN <<>>
        ELSE LET first == CHOOSE i \in M : \A j \in M : i <= j
                 after == SelectSeq(SubSeq(L, first + 1, Len(L)), IsUrlLine)
             IN  [i \in 1..Len(after) |-> strip(after[i])]

Returned == pc = "done" /\ outcome = "return"

-----------------------------------------------------------------------------
(* C1 *)

\* C1: once the runtime check or the image check of a call has failed, the
\* call has ended with an error and no docker run was or is ever started.
C1_NoRunAfterFailedPreflight ==
    (docker_test \in {"nonzero", "FileNotFoundError", "PermissionError"}
        \/ image_test = "nonzero")
    => /\ runs = 0
       /\ container = "none"
       /\ pc = "done"
       /\ outcome \in Errors

C1_Witness == image_test = "nonzero" /\ docker_test = "ok" /\ pc = "done"

-----------------------------------------------------------------------------
(* C2 *)

\* the exceptions the try block raises for each cause (lines 32, 37, 50, 66, 74)
RaisedFor(c) ==
    CASE c = "runtime_unreachable" -> {"EnvironmentError", "FileNotFoundError"}
      [] c = "permission_denied"   -> {"PermissionError"}
      [] c = "image_missing"       -> {"ValueError"}
      [] c = "timeout"             -> {"TimeoutExpired"}
      [] c = "nonzero_exit"        -> {"RuntimeError"}

\* C2: a call that failed for one of the five causes received an error class
\* that no call failing for another of the five causes receives.
C2_CausesDistinguishable ==
    (pc = "done" /\ cause \in FiveCauses)
    => \A other \in FiveCauses \ {cause} :
           outcome \notin {ExceptClause(exc) : exc \in RaisedFor(other)}

-----------------------------------------------------------------------------
(* C3 *)

\* C3: after the call has returned or raised, the staged file does not exist.
C3_StagedFileRemoved == pc = "done" => ~tmpfile_exists

-----------------------------------------------------------------------------
(* C4 *)

\* C4: when the call has ended by timeout, no process of the run is alive:
\* neither the docker client nor the container.
C4_NothingOutlivesTimeout ==
    (pc = "done" /\ cause = "timeout") => (client # "alive" /\ container # "alive")

-----------------------------------------------------------------------------
(* C5 *)

\* C5: a call whose deadline elapsed before the run exited ends with
\* TimeoutError and returns no URL, whatever is on the container's stdout.
C5_TimeoutClassified ==
    (pc = "done" /\ cause = "timeout")
    => (outcome = "TimeoutError" /\ uploaded_urls = <<>> /\ ret = <<>>)

\* the deadline elapsed after the watcher had printed a marker block with a URL
C5_Witness ==
    /\ pc = "done"
    /\ cause = "timeout"
    /\ watcher = "finished"
    /\ uploaded_files # {}
    /\ ExpectedUrls(splitlines(stdout)) # <<>>

-----------------------------------------------------------------------------
(* C6 *)

\* C6: a successful call returns exactly the trimmed http lines that follow
\* the first marker line of stdout, in their order, joined by ", ".  (A line
\* counts as the marker line when its trimmed text is the marker.)
C6_ReturnsMarkerBlock ==
    Returned
    => /\ uploaded_urls = ExpectedUrls(splitlines(stdout))
       /\ ret = join(<<",", "SP">>, ExpectedUrls(splitlines(stdout)))

\* marker, three http lines, two other lines: the three URLs were returned
C6_Witness ==
    LET L == splitlines(stdout)
    IN  /\ Returned
        /\ Len(L) = 6
        /\ L[1] = MARKER
        /\ \A i \in 2..4 : IsUrlLine(L[i])
        /\ \A i \in 5..6 : ~IsUrlLine(L[i]) /\ ~IsMarkerLine(L[i])
        /\ uploaded_urls = <<strip(L[2]), strip(L[3]), strip(L[4])>>

-----------------------------------------------------------------------------
(* C7 *)

NoUrlAfterMarker(L) ==
    ~ \E i, j \in 1..Len(L) : i < j /\ IsMarkerLine(L[i]) /\ IsUrlLine(L[j])

\* C7: exit code 0 and no marker in stdout, or no http line after it: the
\* call returns an empty list and raises nothing.
C7_EmptyIsSuccess ==
    (pc = "done" /\ exit_code = 0 /\ NoUrlAfterMarker(splitlines(stdout)))
    => (outcome = "return" /\ uploaded_urls = <<>> /\ ret = <<>>)

\* no marker at all, although stdout has http lines
C7_Witness ==
    LET L == splitlines(stdout)
    IN  /\ pc = "done"
        /\ exit_code = 0
        /\ \A i \in 1..Len(L) : ~IsMarkerLine(L[i])
        /\ \E i \in 1..Len(L) : IsUrlLine(L[i])

-----------------------------------------------------------------------------
(* C8 *)

\* the files of /app that pass the ignore filter
Qualifying == {f \in files : f \in FileNames /\ ~IsNoise(f)}

AllUploadsOk == \A a \in attempts : a.result = "ok"

\* C8: preflight passed, exit code 0, every upload succeeded and user code
\* printed nothing: the call returns as many URLs as files passing the filter.
C8_ExactlyN ==
    (Returned /\ AllUploadsOk /\ user_lines = 0)
    => Len(uploaded_urls) = Cardinality(Qualifying)

-----------------------------------------------------------------------------
(* C9 *)

\* C9: URLs are returned in the order in which the watcher recorded them.
C9_UploadOrder ==
    Returned
    => \A i, j \in 1..Len(recorded) : \A p, q \in 1..Len(uploaded_urls) :
           (i < j /\ uploaded_urls[p] = recorded[i] /\ uploaded_urls[q] = recorded[j])
           => p < q

-----------------------------------------------------------------------------
(* C10 *)

\* C10: no upload is ever attempted for a noise file, and every URL the
\* watcher holds is the URL of a successful upload of a file that is no noise.
C10_NoiseNeverUploaded ==
    /\ \A a \in attempts : a.file \in PlainFiles
    /\ \A u \in uploaded_files :
           \E a \in attempts :
               a.result = "ok" /\ u = generate_presigned_url(a.key) /\ a.file \in PlainFiles

\* the events of two noise files, one with an upper-case extension, were handled
C10_Witness ==
    /\ \E f, g \in files :
           /\ f # g
           /\ f \in NoiseFiles /\ g \in NoiseFiles
           /\ lower(f) # f
    /\ Cardinality(files) = 2
    /\ event_queue = <<>>
    /\ observer = "running"

-----------------------------------------------------------------------------
(* C14 *)

\* C14: when starting docker fails with file-not-found, the call ends with the
\* "Docker not found" error, no isolated run was attempted and no staged
\* file is left.
C14_DockerAbsent ==
    docker_test = "FileNotFoundError"
    => /\ pc = "done"
       /\ outcome = "FileNotFoundError"
       /\ message = <<"Docker not found.">>
       /\ runs = 0
       /\ container = "none"
       /\ ~tmpfile_exists

\* the file was staged and docker --version then failed with file-not-found
C14_Witness ==
    docker_test = "FileNotFoundError" /\ tmpfile_path = "bound" /\ pc = "done"

-----------------------------------------------------------------------------
(* C15 *)

\* C15: when docker inspect exits nonzero, no isolated run is attempted and
\* the call ends with an error class that a nonzero exit of the isolated run
\* does not receive.
C15_ImageUnavailableDistinct ==
    image_test = "nonzero"
    => /\ pc = "done"
       /\ runs = 0
       /\ outcome \in Errors
       /\ outcome \notin {ExceptClause(exc) : exc \in RaisedFor("nonzero_exit")}

-----------------------------------------------------------------------------
(* C17 *)

\* C17: the parser's collecting flag is on at the end only if some line of
\* stdout equals the marker character for character; the marker with
\* leading or trailing whitespace does not turn it on.
C17_MarkerExact ==
    (Returned /\ collecting_end)
    => \E i \in 1..Len(splitlines(stdout)) : splitlines(stdout)[i] = MARKER

-----------------------------------------------------------------------------
(* C18 *)

\* the observer thread takes the event at the head of the queue in this step
Handled == event_queue # <<>> /\ event_queue' = Tail(event_queue)

\* an upload attempt for the file named name is made in this step
AttemptMade(name) == \E a \in attempts' \ attempts : a.file = name

\* C18: when on_created handles the creation event of a non-directory file
\* that matches none of the three rules of the ignore filter, it makes an
\* upload attempt for that file.
C18_PlainFileAttempted ==
    [][(/\ Handled
        /\ ~Head(event_queue).is_directory
        /\ basename(Head(event_queue).src_path) \in PlainFiles)
       => AttemptMade(basename(Head(event_queue).src_path))]_vars

-----------------------------------------------------------------------------
(* C19 *)

\* an upload attempt fails in this step; one has failed before
FailsNow == attempts' # attempts /\ \E a \in attempts' \ attempts : a.result = "failed"
HasFailed == \E a \in attempts : a.result = "failed"

\* the text out has, starting at token i, exactly the line line
IsLineAt(out, i, line) ==
    /\ out[i] = line[1]
    /\ i = 1 \/ out[i - 1] = "NL"
    /\ i + Len(line) <= Len(out)
    /\ out[i + Len(line)] = "NL"
    /\ SubSeq(out, i, i + Len(line) - 1) = line

\* the watcher's report is on stdout: the marker line, then a line for every
\* recorded URL
MarkerBlockEmitted ==
    \E i \in 1..Len(stdout) :
        /\ IsLineAt(stdout, i, MARKER)
        /\ \A u \in uploaded_files :
               \E j \in (i + 1)..Len(stdout) : IsLineAt(stdout, j, u)

\* a failed upload leaves the host's call, the container and the watcher as
\* they were, and the observer thread alive
FailureChangesNothing ==
    FailsNow => /\ UNCHANGED <<hostVars, container, exit_code, watcher, observer>>
                /\ UNCHANGED <<uploaded_files, recorded>>
                /\ observer = "running"

\* after a failure, an event that passes line 56 and the filter still gets
\* its upload attempt when on_created handles it
LaterEventsAttempted ==
    (/\ Handled
     /\ HasFailed
     /\ ~IsDropped(Head(event_queue))
     /\ basename(Head(event_queue).src_path) \in PlainFiles)
    => AttemptMade(basename(Head(event_queue).src_path))

\* C19: a failed upload is local to its file: the step in which it fails
\* changes nothing of the call, the container, the watcher or the recorded
\* URLs; later qualifying events still get an attempt; recorded URLs stay
\* recorded; and the watcher still reports the marker block.
C19_FailureIsLocal ==
    /\ [][FailureChangesNothing /\ LaterEventsAttempted
          /\ uploaded_files \subseteq uploaded_files']_vars
    /\ [](HasFailed =>
            /\ \A a \in attempts :
                   a.result = "ok" => generate_presigned_url(a.key) \in uploaded_files
            /\ (container = "alive" /\ watcher \in {"polling", "draining"})
               => observer = "running"
            /\ watcher = "finished" => MarkerBlockEmitted)

\* the first upload failed, a later one succeeded, and the report with the
\* URL of the later one is on stdout
C19_Witness ==
    /\ \E a, b \in attempts :
           /\ a.result = "failed"
           /\ a.key = get_unique_s3_obj_key(strftime(0), uuid4(0), splitext(a.file)[2])
           /\ b.result = "ok"
           /\ b.key = get_unique_s3_obj_key(strftime(0), uuid4(1), splitext(b.file)[2])
           /\ generate_presigned_url(b.key) \in uploaded_files
    /\ watcher = "finished"
    /\ MarkerBlockEmitted

-----------------------------------------------------------------------------
(* C20 *)

\* the lifecycle state of the run
Phase ==
    IF container = "none" THEN "NotStarted"
    ELSE IF container # "alive" THEN "Terminated"
    ELSE IF watcher = "polling" THEN "Running"
    ELSE IF watcher = "draining" THEN "Draining"
    ELSE "Reporting"

LifecycleSteps ==
    {<<"NotStarted", "Running">>, <<"Running", "Draining">>,
     <<"Draining", "Reporting">>, <<"Reporting", "Terminated">>}

\* C20: a run goes through Running, Draining, Reporting and Terminated in
\* that order with no state skipped, and a call that ended because the
\* timeout fired ended after the drain and the marker-block report.
C20_Lifecycle ==
    /\ [][Phase' = Phase \/ <<Phase, Phase'>> \in LifecycleSteps]_vars
    /\ []((pc = "done" /\ cause = "timeout")
            => (Phase \in {"Reporting", "Terminated"} /\ MarkerBlockEmitted))

-----------------------------------------------------------------------------
(* C12 *)

\* C12: the message raised for a nonzero exit does not contain the value of
\* the secret of the environment handed to the run, whatever user code
\* wrote to stderr.
C12_NoSecretInMessage ==
    (pc = "done" /\ cause = "nonzero_exit")
    => \A i \in 1..Len(message) : message[i] # secret

-----------------------------------------------------------------------------
(* C16 *)

\* a maximum length of the surfaced text: the fixed words of the message and
\* room for all but one of the tokens stderr may hold
MessageLimit == Len(ExceptMessage("RuntimeError", DockerFailedText(<<>>))) + MaxErr - 1

\* C16: after a nonzero exit the call raises the RuntimeFailure class, returns
\* no URL even when stdout holds a marker block, and the surfaced text is no
\* longer than a fixed maximum however much the run wrote to stderr.
C16_BoundedStderr ==
    (pc = "done" /\ cause = "nonzero_exit")
    => /\ outcome = "RuntimeError"
       /\ uploaded_urls = <<>>
       /\ ret = <<>>
       /\ Len(message) <= MessageLimit

-----------------------------------------------------------------------------
(* C11 *)

\* C11: any two keys generated, by the watcher of either run or by Utils,
\* for the same extension and within the same second, are different, and so
\* are the URLs made from them.
C11_KeysDistinct ==
    \A i, j \in 1..Len(keys) :
        (i # j /\ keys[i].extension = keys[j].extension /\ keys[i].now = keys[j].now)
        => /\ keys[i].key # keys[j].key
           /\ generate_presigned_url(keys[i].key) # generate_presigned_url(keys[j].key)

\* the watchers of two runs and Utils each generated a key for .txt within
\* the same second
C11_Witness ==
    /\ Len(keys) = 3
    /\ \A i \in 1..3 : keys[i].extension = <<"t", "x", "t">> /\ keys[i].now = strftime(0)
    /\ {keys[i].by : i \in 1..3} = {"watcher1", "watcher2", "Utils"}

-----------------------------------------------------------------------------
(* C13 *)

Running(i) == calls[i].pc \in {"staged", "waiting"}

\* C13: of two concurrent calls, each has, while it runs, its own staged
\* file holding its own code under a path the other call does not have;
\* the run of each executed the code of its own call; and each returns only
\* URLs printed by its own run.
C13_NoSharedState ==
    \A i \in Callers :
        /\ Running(i) => <<calls[i].path, i>> \in hostfs
        /\ calls[i].pc \in {"waiting", "done"} => calls[i].ran \in {0, i}
        /\ calls[i].pc = "waiting" => calls[i].ran = i
        /\ \A k \in 1..Len(calls[i].urls) : calls[i].urls[k] = PairUrl(i)
        /\ \A j \in Callers \ {i} :
               (Running(i) /\ Running(j)) => calls[i].path # calls[j].path

\* one call has returned the URL of its run and removed its file while the
\* other, staged meanwhile, is still waiting for its run
C13_Witness ==
    /\ calls[1].pc = "done"
    /\ calls[1].urls = <<PairUrl(1)>>
    /\ calls[2].pc = "waiting"
    /\ calls[2].out # <<>>
    /\ Cardinality(hostfs) = 1

-----------------------------------------------------------------------------
(* C24 *)

\* C24: no staging file exists on the host and no isolated run has been
\* launched before the runtime check and the image check have both passed.
C24_ChecksBeforeResources ==
    (tmpfile_exists \/ runs > 0) => (docker_test = "ok" /\ image_test = "ok")

-----------------------------------------------------------------------------
(* C29 *)

\* C29: a call that raised did so with one of the four classes, and with
\* FileNotFoundError or PermissionError only when starting the docker binary
\* failed that way, never for a failure of the staging file.
C29_FourClassesOnly ==
    (pc = "done" /\ outcome # "return")
    => /\ outcome \in Errors
       /\ outcome \in {"FileNotFoundError", "PermissionError"} => docker_test = outcome

-----------------------------------------------------------------------------
(* C28 *)

IsPrefix(s, t) == Len(s) <= Len(t) /\ SubSeq(t, 1, Len(s)) = s

\* what the loop has done after the first k of the lines L: the flag, the URLs
FlagAfter(L, k) == collecting_after(SubSeq(L, 1, k), FALSE)
UrlsAfter(L, k) == parse_loop(SubSeq(L, 1, k), FALSE, <<>>)

\* line by line: the flag is never reset, a marker line turns it on and
\* appends nothing, and no line removes a URL already collected
MonotoneOver(L) ==
    LET flag == [k \in 0..Len(L) |-> FlagAfter(L, k)]
        urls == [k \in 0..Len(L) |-> UrlsAfter(L, k)]
    IN  /\ ~flag[0]
        /\ \A k \in 1..Len(L) :
               /\ flag[k - 1] => flag[k]
               /\ IsMarkerLine(L[k]) => (flag[k] /\ urls[k] = urls[k - 1])
               /\ IsPrefix(urls[k - 1], urls[k])
               /\ (flag[k - 1] /\ IsUrlLine(L[k]))
                  => urls[k] = Append(urls[k - 1], strip(L[k]))

\* the call returns in this step
ReturnsNow == pc = "waiting" /\ pc' = "done" /\ outcome' = "return"

\* C28: over the lines of the output a call parses when it returns, the
\* collecting flag starts false and is never reset, a second or later marker
\* line is skipped and clears nothing, and http lines after it are appended
\* after the earlier ones; the call returns the URLs so collected.
C28_FlagMonotone ==
    [][ReturnsNow
       => LET L == splitlines(strip(stdout))
          IN  /\ MonotoneOver(L)
              /\ uploaded_urls' = UrlsAfter(L, Len(L))]_vars

TwoBlocksIn(L) ==
    \E i, j, k, l \in 1..Len(L) :
        /\ i < j /\ j < k /\ k < l
        /\ IsMarkerLine(L[i]) /\ IsUrlLine(L[j])
        /\ IsMarkerLine(L[k]) /\ IsUrlLine(L[l])

\* a call returned two URLs from an output with a marker, a URL, a second
\* marker and a URL after it
C28_Witness ==
    Returned /\ Len(uploaded_urls) = 2 /\ TwoBlocksIn(splitlines(strip(stdout)))

-----------------------------------------------------------------------------
(* C26 *)

\* C26: every URL a call returns is a URL the watcher of its run recorded
\* from a successful presign; lines printed by user code add nothing to the
\* returned list.
C26_OnlyWatcherUrls ==
    Returned
    => \A k \in 1..Len(uploaded_urls) : uploaded_urls[k] \in uploaded_files

-----------------------------------------------------------------------------
(* C22 *)

\* what this step appends to stdout, as lines
Appended == splitlines(SubSeq(stdout', Len(stdout) + 1, Len(stdout')))

\* this step is a print of user code
UserPrints == user_lines' # user_lines

\* the lines L are the marker followed by each URL of the set U once
IsReport(L, U) ==
    /\ Len(L) = 1 + Cardinality(U)
    /\ L[1] = MARKER
    /\ {L[k] : k \in 2..Len(L)} = U
    /\ \A k \in 2..Len(L) : startswith(L[k], HTTP)

\* a step of the watcher's container, not a print of user code
WatcherProtocol ==
    /\ IsPrefix(stdout, stdout')
    /\ (stdout' # stdout /\ ~UserPrints) =>
          IF watcher' = "finished"
          THEN \* the report: printed once, when the observer has been stopped
               /\ watcher # "finished"
               /\ observer' = "stopped"
               /\ IsReport(Appended, uploaded_files)
          ELSE \* before the report the watcher prints log lines only
               \A k \in 1..Len(Appended) : Appended[k] = WLOG
    /\ watcher = "finished" => watcher' = "finished"
    /\ observer = "stopped" =>
          (attempts' = attempts /\ uploaded_files' = uploaded_files)

\* C22: the watcher prints the marker once, when the observer thread has
\* been stopped, then one line per recorded URL, each starting with http,
\* and nothing after that; before the marker it prints log lines only.
C22_OutputProtocol == [][WatcherProtocol]_vars

\* the watcher detected the sentinel and has reported two URLs, with no
\* output of user code
C22_Witness ==
    /\ watcher = "finished"
    /\ sentinel
    /\ user_lines = 0
    /\ Cardinality(uploaded_files) = 2
    /\ \E order \in Orders(uploaded_files) :
           IsPrefix(<<MARKER>> \o order,
                    SubSeq(splitlines(stdout), Len(splitlines(stdout)) - 2,
                           Len(splitlines(stdout))))

-----------------------------------------------------------------------------
(* C25 *)

\* C25: every call eventually ends, with a returned list or one of the error
\* classes and with the docker client it started reaped, even when a check
\* or the isolated run never completes on its own.
C25_CallTerminates ==
    /\ <>(pc = "done")
    /\ [](pc = "done" => (outcome \in Errors \cup {"return"} /\ client # "alive"))

-----------------------------------------------------------------------------
(* C21 *)

\* the watcher stops observing, or prints its report and ends, in this step
StopsObserving == observer = "running" /\ observer' = "stopped"
EmitsReport == watcher \in {"polling", "draining"} /\ watcher' = "finished"

\* the step is the watcher's own and not the handling of a KeyboardInterrupt
Uninterrupted == ~Interrupt /\ ~ContainerKilled

-----------------------------------------------------------------------------
(* C23 *)

\* an upload attempt has been made for the file named name
Attempted(name) == \E a \in attempts : a.file = name

\* C23: every file created in /app whose name passes the ignore filter
\* eventually gets its upload attempt, whatever user code does afterwards,
\* as long as the watcher process is scheduled.
C23_NeverStalled ==
    \A name \in PlainFiles : (name \in files) ~> Attempted(name)

-----------------------------------------------------------------------------
(* C27 *)

\* user code has ended with every file it created written in full
WritingFinished ==
    /\ user = "exited"
    /\ \A name \in (DOMAIN content) \ DirNames : content[name] = MaxChunks

\* C27: what the bucket holds for an artifact is the content the file has
\* once user code has finished writing it.
C27_NoPartialUpload ==
    WritingFinished => \A o \in objects : o.chunks = content[o.file]

-----------------------------------------------------------------------------
(* C30 *)

\* C30: while one call waits for its run, another call that has not started
\* can take its next step on the same event loop.
C30_IndependentProgress ==
    \A i, j \in Callers :
        (i # j /\ calls[i].pc = "waiting" /\ calls[j].pc = "start")
            => ENABLED LoopStep(j)

====
